---------------------------- MODULE Spec2Model ----------------------------
(***************************************************************************)
(* Lexer and Pratt parser of the Monkey front end (packages token, lexer,  *)
(* ast, parser).  Source text is a sequence of bytes (0..255); a token is  *)
(* a record [Type, Literal] whose Literal is a sequence of bytes.  The     *)
(* lexer is the record l = [input, position, readPosition, ch]; the parser *)
(* runs as a machine with an explicit call stack, one frame per active Go  *)
(* call.                                                                   *)
(***************************************************************************)
EXTENDS Integers, Sequences, FiniteSets, TLC

VARIABLES
    given,      \* how the input was built: constant during a run
    l,          \* lexer.Lexer: [input, position, readPosition, ch]
    toks,       \* history of Lexer.NextToken calls: [tok, before, after]
    curToken,   \* Parser.curToken
    peekToken,  \* Parser.peekToken
    errors,     \* Parser.errors
    stack,      \* active parser calls, innermost first
    ret,        \* value returned by the call that returned last
    result      \* the Program returned by ParseProgram, NoProgram before

vars == <<given, l, toks, curToken, peekToken, errors, stack, ret, result>>

-----------------------------------------------------------------------------
(* Bounds of the model.                                                    *)

\* longest byte string the lexer specification scans
MaxLen == 3
\* NextToken calls made after the call that first reaches the end of input
MaxExtraCalls == 2
\* longest arbitrary program, in lexemes
MaxTokens == 2
\* largest expression tree without groups and calls, in nodes
MaxNodes == 5
\* largest expression tree with groups and calls, in nodes
MaxGroupedNodes == 5
\* largest expression tree of a let or return statement, in nodes
MaxStatementNodes == 3
\* longest block, in statements
MaxBlock == 2
\* longest parameter list
MaxParams == 2

-----------------------------------------------------------------------------
(* Bytes.  The printable ASCII characters in code order, from 32 to 126.   *)

Printable ==
    <<" ", "!", "dq", "#", "$", "%", "&", "'", "(", ")", "*", "+", ",", "-",
      ".", "/", "0", "1", "2", "3", "4", "5", "6", "7", "8", "9", ":", ";",
      "<", "=", ">", "?", "@", "A", "B", "C", "D", "E", "F", "G", "H", "I",
      "J", "K", "L", "M", "N", "O", "P", "Q", "R", "S", "T", "U", "V", "W",
      "X", "Y", "Z", "[", "bs", "]", "^", "_", "bq", "a", "b", "c", "d", "e",
      "f", "g", "h", "i", "j", "k", "l", "m", "n", "o", "p", "q", "r", "s",
      "t", "u", "v", "w", "x", "y", "z", "{", "|", "}", "~">>

Ord(c) == 31 + (CHOOSE i \in 1..Len(Printable) : Printable[i] = c)

B(s) == [i \in 1..Len(s) |-> Ord(s[i])]

-----------------------------------------------------------------------------
(* package token                                                           *)

ILLEGAL == "ILLEGAL"
EOF == "EOF"
IDENT == "IDENT"
INT == "INT"
ASSIGN == "="
PLUS == "+"
MINUS == "-"
BANG == "!"
ASTERISK == "*"
SLASH == "/"
LT == "<"
GT == ">"
EQ == "=="
NOT_EQ == "!="
COMMA == ","
SEMICOLON == ";"
LPAREN == "("
RPAREN == ")"
LBRACE == "{"
RBRACE == "}"
FUNCTION == "FUNCTION"
LET_ == "LET"
TRUE_ == "TRUE"
FALSE_ == "FALSE"
IF_ == "IF"
ELSE_ == "ELSE"
RETURN == "RETURN"

keywords ==
    (B(<<"f", "n">>) :> FUNCTION)
    @@ (B(<<"l", "e", "t">>) :> LET_)
    @@ (B(<<"t", "r", "u", "e">>) :> TRUE_)
    @@ (B(<<"f", "a", "l", "s", "e">>) :> FALSE_)
    @@ (B(<<"i", "f">>) :> IF_)
    @@ (B(<<"e", "l", "s", "e">>) :> ELSE_)
    @@ (B(<<"r", "e", "t", "u", "r", "n">>) :> RETURN)

\* a lookup that knows no keyword
LookupIdentPlain(ident) == IDENT

LookupIdent(ident) ==
    IF ident \in DOMAIN keywords THEN keywords[ident] ELSE IDENT

Token(type, literal) == [Type |-> type, Literal |-> literal]

\* Go's nil
NIL == [node |-> "nil"]

\* the zero value of token.Token
ZeroToken == Token("", <<>>)

-----------------------------------------------------------------------------
(* package lexer                                                           *)

\* Go's string(ch) for a byte ch: the UTF-8 encoding of the code point ch
StringOfByte(ch) ==
    IF ch < 128 THEN <<ch>> ELSE <<192 + (ch \div 64), 128 + (ch % 64)>>

newToken(tokenType, ch) == Token(tokenType, StringOfByte(ch))

isLetter(ch) ==
    \/ Ord("a") <= ch /\ ch <= Ord("z")
    \/ Ord("A") <= ch /\ ch <= Ord("Z")
    \/ ch = Ord("_")

isDigit(ch) == Ord("0") <= ch /\ ch <= Ord("9")

readChar(lx) ==
    [lx EXCEPT
        !.ch = IF lx.readPosition >= Len(lx.input)
               THEN 0
               ELSE lx.input[lx.readPosition + 1],
        !.position = lx.readPosition,
        !.readPosition = lx.readPosition + 1]

peekChar(lx) ==
    IF lx.readPosition >= Len(lx.input)
    THEN 0
    ELSE lx.input[lx.readPosition + 1]

NewLexer(input) ==
    readChar([input |-> input, position |-> 0, readPosition |-> 0, ch |-> 0])

RECURSIVE skipWhitespace(_)
skipWhitespace(lx) ==
    IF lx.ch \in {32, 9, 10, 13} THEN skipWhitespace(readChar(lx)) ELSE lx

RECURSIVE readLetters(_)
readLetters(lx) == IF isLetter(lx.ch) THEN readLetters(readChar(lx)) ELSE lx

RECURSIVE readDigits(_)
readDigits(lx) == IF isDigit(lx.ch) THEN readDigits(readChar(lx)) ELSE lx

\* input[position:l.position] after the run of letters
readIdentifier(lx) ==
    LET after == readLetters(lx)
    IN  [lit |-> SubSeq(lx.input, lx.position + 1, after.position), l |-> after]

readNumber(lx) ==
    LET after == readDigits(lx)
    IN  [lit |-> SubSeq(lx.input, lx.position + 1, after.position), l |-> after]

SingleByteKinds ==
    (Ord(";") :> SEMICOLON) @@ (Ord("(") :> LPAREN) @@ (Ord(")") :> RPAREN)
    @@ (Ord("{") :> LBRACE) @@ (Ord("}") :> RBRACE) @@ (Ord(",") :> COMMA)
    @@ (Ord("+") :> PLUS) @@ (Ord("-") :> MINUS) @@ (Ord("/") :> SLASH)
    @@ (Ord("*") :> ASTERISK) @@ (Ord("<") :> LT) @@ (Ord(">") :> GT)

\* no lookahead: '=' and '!' are always tokens of one byte
TwoByteNeverPairs(s, two, one) == [tok |-> newToken(one, s.ch), l |-> readChar(s)]

\* a lookahead that leaves the cursor on a lone '=' or '!'
TwoByteStays(s, two, one) ==
    IF peekChar(s) = Ord("=")
    THEN LET s2 == readChar(s)
         IN  [tok |-> Token(two, StringOfByte(s.ch) \o StringOfByte(s2.ch)),
              l |-> readChar(s2)]
    ELSE [tok |-> newToken(one, s.ch), l |-> s]

\* one-byte lookahead of the cases '=' and '!'
TwoByte(s, two, one) ==
    IF peekChar(s) = Ord("=")
    THEN LET s2 == readChar(s)
         IN  [tok |-> Token(two, StringOfByte(s.ch) \o StringOfByte(s2.ch)),
              l |-> readChar(s2)]
    ELSE [tok |-> newToken(one, s.ch), l |-> readChar(s)]

\* Lexer.NextToken: the token returned and the lexer afterwards
NextToken(lx) ==
    LET s == skipWhitespace(lx)
    IN  CASE s.ch = Ord("=") -> TwoByte(s, EQ, ASSIGN)
          [] s.ch = Ord("!") -> TwoByte(s, NOT_EQ, BANG)
          [] s.ch \in DOMAIN SingleByteKinds ->
                [tok |-> newToken(SingleByteKinds[s.ch], s.ch), l |-> readChar(s)]
          [] s.ch = 0 -> [tok |-> Token(EOF, <<>>), l |-> readChar(s)]
          [] OTHER ->
                IF isLetter(s.ch)
                THEN LET r == readIdentifier(s)
                     IN  [tok |-> Token(LookupIdent(r.lit), r.lit), l |-> r.l]
                ELSE IF isDigit(s.ch)
                THEN LET r == readNumber(s)
                     IN  [tok |-> Token(INT, r.lit), l |-> r.l]
                ELSE [tok |-> newToken(ILLEGAL, s.ch), l |-> readChar(s)]

\* the history with one more call: the token and the cursor before and after
Recorded(hist, r, lx) ==
    Append(hist, [tok |-> r.tok, before |-> lx.position, after |-> r.l.position])

-----------------------------------------------------------------------------
(* package parser: tables and the helpers that touch only the parser's     *)
(* fields.  P is the record [l, toks, cur, peek, errors] of those fields.  *)

LOWEST == 1
EQUALS == 2
LESSGREATER == 3
SUM == 4
PRODUCT == 5
PREFIX == 6
CALL == 7

precedences ==
    (EQ :> EQUALS) @@ (NOT_EQ :> EQUALS) @@ (LT :> LESSGREATER)
    @@ (GT :> LESSGREATER) @@ (PLUS :> SUM) @@ (MINUS :> SUM)
    @@ (SLASH :> PRODUCT) @@ (ASTERISK :> PRODUCT) @@ (LPAREN :> CALL)

\* registerPrefix calls of New
prefixParseFns ==
    (IDENT :> "parseIdentifier") @@ (INT :> "parseIntegerLiteral")
    @@ (BANG :> "parsePrefixExpression") @@ (MINUS :> "parsePrefixExpression")
    @@ (TRUE_ :> "parseBoolean") @@ (FALSE_ :> "parseBoolean")
    @@ (LPAREN :> "parseGroupedExpression") @@ (IF_ :> "parseIfExpression")
    @@ (FUNCTION :> "parseFunctionLiteral")

\* registerInfix calls of New
infixParseFns ==
    (PLUS :> "parseInfixExpression") @@ (MINUS :> "parseInfixExpression")
    @@ (SLASH :> "parseInfixExpression") @@ (ASTERISK :> "parseInfixExpression")
    @@ (EQ :> "parseInfixExpression") @@ (NOT_EQ :> "parseInfixExpression")
    @@ (LT :> "parseInfixExpression") @@ (GT :> "parseInfixExpression")
    @@ (LPAREN :> "parseCallExpression")

peekPrecedence(P) ==
    IF P.peek.Type \in DOMAIN precedences THEN precedences[P.peek.Type] ELSE LOWEST

curPrecedence(P) ==
    IF P.cur.Type \in DOMAIN precedences THEN precedences[P.cur.Type] ELSE LOWEST

curTokenIs(P, t) == P.cur.Type = t

peekTokenIs(P, t) == P.peek.Type = t

\* a step of the lookahead that forgets to move the peek token to the
\* current token
ShiftPeekOnly(P, r) ==
    [P EXCEPT !.peek = r.tok, !.l = r.l, !.toks = Recorded(P.toks, r, P.l)]

\* the parser after p.peekToken = r.tok, r the result of p.l.NextToken()
Shift(P, r) ==
    [P EXCEPT !.cur = P.peek, !.peek = r.tok, !.l = r.l,
              !.toks = Recorded(P.toks, r, P.l)]

nextToken(P) == Shift(P, NextToken(P.l))

\* a diagnostic put in front of the earlier ones
PeekErrorInFront(P, t) ==
    [P EXCEPT !.errors =
        <<[msg |-> "expected next token to be, got instead",
           expected |-> t, got |-> P.peek.Type]>> \o @]

PeekError(P, t) ==
    [P EXCEPT !.errors =
        Append(@, [msg |-> "expected next token to be, got instead",
                   expected |-> t, got |-> P.peek.Type])]

\* a missing prefix function that goes unrecorded
noPrefixParseFnErrorSilent(P, t) == P

\* a diagnostic that names the kind of the token after the offending one
noPrefixParseFnErrorOnPeek(P, t) ==
    [P EXCEPT !.errors =
        Append(@, [msg |-> "no prefix parse function for found", type |-> P.peek.Type])]

noPrefixParseFnError(P, t) ==
    [P EXCEPT !.errors =
        Append(@, [msg |-> "no prefix parse function for found", type |-> t])]

\* a check that moves on to the next token also when it fails
expectPeekSkipping(P, t) ==
    IF peekTokenIs(P, t)
    THEN [ok |-> TRUE, P |-> nextToken(P)]
    ELSE [ok |-> FALSE, P |-> nextToken(PeekError(P, t))]

\* expectPeek: whether the peek token had kind t, and the parser afterwards
expectPeek(P, t) ==
    IF peekTokenIs(P, t)
    THEN [ok |-> TRUE, P |-> nextToken(P)]
    ELSE [ok |-> FALSE, P |-> PeekError(P, t)]

-----------------------------------------------------------------------------
(* strconv.ParseInt(s, 0, 64) on a run of ASCII digits.  Numbers are kept  *)
(* as sequences of decimal digits, least significant first, so that values *)
(* beyond the host integers are exact.                                     *)

\* 9223372036854775807, least significant digit first
MaxInt64Digits == <<7, 0, 8, 5, 7, 7, 4, 5, 8, 6, 3, 0, 2, 7, 3, 3, 2, 2, 9>>

RECURSIVE MulAdd(_, _, _)
\* n * base + carry
MulAdd(n, base, carry) ==
    IF n = <<>>
    THEN IF carry = 0 THEN <<>> ELSE <<carry % 10>> \o MulAdd(<<>>, base, carry \div 10)
    ELSE LET v == Head(n) * base + carry
         IN  <<v % 10>> \o MulAdd(Tail(n), base, v \div 10)

RECURSIVE Accumulate(_, _, _)
Accumulate(n, base, ds) ==
    IF ds = <<>> THEN n
    ELSE Accumulate(MulAdd(n, base, Head(ds) - Ord("0")), base, Tail(ds))

RECURSIVE GreaterRev(_, _)
\* a > b for equally long digit sequences, most significant first
GreaterRev(a, b) ==
    IF a = <<>> THEN FALSE
    ELSE IF Head(a) # Head(b) THEN Head(a) > Head(b)
    ELSE GreaterRev(Tail(a), Tail(b))

Reverse(s) == [i \in 1..Len(s) |-> s[Len(s) + 1 - i]]

ExceedsInt64(n) ==
    \/ Len(n) > Len(MaxInt64Digits)
    \/ Len(n) = Len(MaxInt64Digits) /\ GreaterRev(Reverse(n), Reverse(MaxInt64Digits))

\* the value n of the digits, or the range error
InRange(n) ==
    IF ExceedsInt64(n) THEN [err |-> "range", value |-> MaxInt64Digits]
    ELSE [err |-> "", value |-> n]

\* the digits ds read in the base
ParseDigits(ds, base) ==
    IF \E i \in 1..Len(ds) : ds[i] - Ord("0") >= base
    THEN [err |-> "syntax", value |-> <<>>]
    ELSE InRange(Accumulate(<<>>, base, ds))

\* base 0: a leading "0" selects base 8 and is dropped, otherwise base 10
ParseInt(s) ==
    IF s = <<>> THEN [err |-> "syntax", value |-> <<>>]
    ELSE IF Head(s) = Ord("0") THEN ParseDigits(Tail(s), 8)
    ELSE ParseDigits(s, 10)

-----------------------------------------------------------------------------
(* package ast: nodes are records tagged by node; NIL is Go's nil.         *)

\* a non-nil Go slice
Slice(s) == [node |-> "slice", elems |-> s]

Identifier(tok) == [node |-> "Identifier", Token |-> tok, Value |-> tok.Literal]

parseIdentifier(P) == [P |-> P, node |-> Identifier(P.cur)]

parseBoolean(P) ==
    [P |-> P,
     node |-> [node |-> "Boolean", Token |-> P.cur, Value |-> curTokenIs(P, TRUE_)]]

\* parseIntegerLiteral once strconv.ParseInt has answered r
IntegerLiteral(P, r) ==
    IF r.err # ""
    THEN [P |-> [P EXCEPT !.errors =
                    Append(@, [msg |-> "could not parse as integer",
                               literal |-> P.cur.Literal])],
          node |-> NIL]
    ELSE [P |-> P,
          node |-> [node |-> "IntegerLiteral", Token |-> P.cur, Value |-> r.value]]

parseIntegerLiteral(P) == IntegerLiteral(P, ParseInt(P.cur.Literal))

RECURSIVE parametersInFront(_, _)
\* a parameter list that puts each identifier in front of the earlier ones
parametersInFront(P, identifiers) ==
    IF peekTokenIs(P, COMMA)
    THEN parametersInFront(nextToken(nextToken(P)), <<Identifier(P.cur)>> \o identifiers)
    ELSE [P |-> P, identifiers |-> <<Identifier(P.cur)>> \o identifiers]

RECURSIVE parameters(_, _)
\* parseFunctionParameters from the identifier under the current token on:
\* the identifier is taken, and one more for every comma that follows
parameters(P, identifiers) ==
    IF peekTokenIs(P, COMMA)
    THEN parameters(nextToken(nextToken(P)), Append(identifiers, Identifier(P.cur)))
    ELSE [P |-> P, identifiers |-> Append(identifiers, Identifier(P.cur))]

\* the closing parenthesis of the parameter list
ParametersEnd(e, identifiers) ==
    IF ~e.ok
    THEN [P |-> e.P, identifiers |-> NIL]
    ELSE [P |-> e.P, identifiers |-> Slice(identifiers)]

ParametersClosed(r) == ParametersEnd(expectPeek(r.P, RPAREN), r.identifiers)

parseFunctionParameters(P) ==
    IF peekTokenIs(P, RPAREN)
    THEN [P |-> nextToken(P), identifiers |-> Slice(<<>>)]
    ELSE ParametersClosed(parameters(nextToken(P), <<>>))

\* the outcome of calling a method through a nil pointer or interface
Panic == <<-1>>

\* what bytes.Buffer holds after WriteString(b) on a, if neither panicked
Cat(a, b) == IF a = Panic \/ b = Panic THEN Panic ELSE a \o b

RECURSIVE String(_)
RECURSIVE Strings(_)
\* the String methods of the nodes
String(n) ==
    CASE n = NIL -> Panic
      [] n.node = "Program" -> Strings(n.Statements)
      [] n.node = "LetStatement" ->
            Cat(Cat(n.Token.Literal \o <<32>>, String(n.Name)),
                Cat(<<32, Ord("="), 32>>,
                    Cat(IF n.Value # NIL THEN String(n.Value) ELSE <<>>, <<Ord(";")>>)))
      [] n.node = "Identifier" -> n.Value
      [] n.node = "ReturnStatement" ->
            Cat(n.Token.Literal \o <<32>>,
                Cat(IF n.ReturnValue # NIL THEN String(n.ReturnValue) ELSE <<>>,
                    <<Ord(";")>>))
      [] n.node = "ExpressionStatement" ->
            IF n.Expression # NIL THEN String(n.Expression) ELSE <<>>
      [] n.node = "IntegerLiteral" -> n.Token.Literal
      [] n.node = "Boolean" -> n.Token.Literal
      [] n.node = "IfExpression" ->
            Cat(Cat(<<Ord("i"), Ord("f")>>, String(n.Condition)),
                Cat(Cat(<<32>>, String(n.Consequence)),
                    IF n.Alternative # NIL
                    THEN Cat(<<Ord("e"), Ord("l"), Ord("s"), Ord("e"), 32>>,
                             String(n.Alternative))
                    ELSE <<>>))
      [] n.node = "BlockStatement" -> Strings(n.Statements)
      [] n.node = "PrefixExpression" ->
            Cat(<<Ord("(")>> \o n.Operator, Cat(String(n.Right), <<Ord(")")>>))
      [] n.node = "InfixExpression" ->
            Cat(Cat(<<Ord("(")>>, String(n.Left)),
                Cat(<<32>> \o n.Operator \o <<32>>,
                    Cat(String(n.Right), <<Ord(")")>>)))

\* the buffer after the String of every statement was written to it in turn
Strings(stmts) ==
    IF stmts = <<>> THEN <<>>
    ELSE Cat(String(Head(stmts)), Strings(Tail(stmts)))

-----------------------------------------------------------------------------
(* The parser's calls.  A frame is [fn, pc, ...locals]; a step runs the    *)
(* innermost call from its pc to its next call or to its return, and       *)
(* yields [P, stack, ret].  Loop frames carry iter, the number of times    *)
(* the loop condition was evaluated, and mark, the number of tokens taken  *)
(* from the lexer at the latest evaluation.                                *)

Frame(fn) == [fn |-> fn, pc |-> "start"]

ExprFrame(precedence) ==
    [fn |-> "parseExpression", pc |-> "start", precedence |-> precedence,
     iter |-> 0, mark |-> 0]

Ret(P, rest, v) == [P |-> P, stack |-> rest, ret |-> v]

Call(P, rest, me, callee) == [P |-> P, stack |-> <<callee, me>> \o rest, ret |-> NIL]

\* parseStatement: the switch on the current token; the callee's result is
\* returned as it is
parseStatement(P, f, rest, rv) ==
    LET callee == CASE P.cur.Type = LET_ -> "parseLetStatement"
                    [] P.cur.Type = RETURN -> "parseReturnStatement"
                    [] OTHER -> "parseExpressionStatement"
    IN  [P |-> P, stack |-> <<Frame(callee)>> \o rest, ret |-> NIL]

\* the condition of ParseProgram's loop, and what follows it
ProgramLoop(P, f, rest) ==
    LET g == [f EXCEPT !.iter = @ + 1, !.mark = Len(P.toks)]
    IN  IF P.cur.Type # EOF
        THEN Call(P, rest, [g EXCEPT !.pc = "stmt"], Frame("parseStatement"))
        ELSE Ret(P, rest, [node |-> "Program", Statements |-> f.Statements])

\* a statement loop that does not move on after a statement
ParseProgramStays(P, f, rest, rv) ==
    IF f.pc = "start"
    THEN ProgramLoop(P, [f EXCEPT !.pc = "loop"] @@ [Statements |-> <<>>, iter |-> 0, mark |-> 0], rest)
    ELSE LET stmts == IF rv # NIL THEN Append(f.Statements, rv) ELSE f.Statements
         IN  ProgramLoop(P, [f EXCEPT !.Statements = stmts], rest)

ParseProgram(P, f, rest, rv) ==
    IF f.pc = "start"
    THEN ProgramLoop(P, [f EXCEPT !.pc = "loop"] @@ [Statements |-> <<>>, iter |-> 0, mark |-> 0], rest)
    ELSE LET stmts == IF rv # NIL THEN Append(f.Statements, rv) ELSE f.Statements
         IN  ProgramLoop(nextToken(P), [f EXCEPT !.Statements = stmts], rest)

\* the condition of parseBlockStatement's loop, and what follows it
BlockLoop(P, f, rest) ==
    LET g == [f EXCEPT !.iter = @ + 1, !.mark = Len(P.toks)]
    IN  IF ~curTokenIs(P, RBRACE) /\ ~curTokenIs(P, EOF)
        THEN Call(P, rest, [g EXCEPT !.pc = "stmt"], Frame("parseStatement"))
        ELSE Ret(P, rest, [node |-> "BlockStatement", Token |-> f.Token,
                           Statements |-> f.Statements])

parseBlockStatement(P, f, rest, rv) ==
    IF f.pc = "start"
    THEN BlockLoop(nextToken(P),
                   f @@ [Token |-> P.cur, Statements |-> <<>>, iter |-> 0, mark |-> 0],
                   rest)
    ELSE LET stmts == IF rv # NIL THEN Append(f.Statements, rv) ELSE f.Statements
         IN  BlockLoop(nextToken(P), [f EXCEPT !.Statements = stmts], rest)

\* the optional semicolon that ends a statement
SkipSemicolon(P) == IF peekTokenIs(P, SEMICOLON) THEN nextToken(P) ELSE P

\* a let statement that takes the = for the start of its value
LetAssignStays(e, g, rest) ==
    IF ~e.ok THEN Ret(e.P, rest, NIL)
    ELSE Call(e.P, rest, g, ExprFrame(LOWEST))

\* parseLetStatement from expectPeek(token.ASSIGN) on
LetAssign(e, g, rest) ==
    IF ~e.ok THEN Ret(e.P, rest, NIL)
    ELSE Call(nextToken(e.P), rest, g, ExprFrame(LOWEST))

\* parseLetStatement from expectPeek(token.IDENT) on
LetName(e, f, rest, tok) ==
    IF ~e.ok THEN Ret(e.P, rest, NIL)
    ELSE LetAssign(expectPeek(e.P, ASSIGN),
                   [fn |-> f.fn, pc |-> "value", Token |-> tok,
                    Name |-> Identifier(e.P.cur)],
                   rest)

parseLetStatement(P, f, rest, rv) ==
    IF f.pc = "start"
    THEN LetName(expectPeek(P, IDENT), f, rest, P.cur)
    ELSE Ret(SkipSemicolon(P), rest,
             [node |-> "LetStatement", Token |-> f.Token, Name |-> f.Name,
              Value |-> rv])

parseReturnStatement(P, f, rest, rv) ==
    IF f.pc = "start"
    THEN Call(nextToken(P), rest,
              [fn |-> f.fn, pc |-> "value", Token |-> P.cur], ExprFrame(LOWEST))
    ELSE Ret(SkipSemicolon(P), rest,
             [node |-> "ReturnStatement", Token |-> f.Token, ReturnValue |-> rv])

parseExpressionStatement(P, f, rest, rv) ==
    IF f.pc = "start"
    THEN Call(P, rest, [fn |-> f.fn, pc |-> "value", Token |-> P.cur],
              ExprFrame(LOWEST))
    ELSE Ret(SkipSemicolon(P), rest,
             [node |-> "ExpressionStatement", Token |-> f.Token, Expression |-> rv])

LeafPrefixFns == {"parseIdentifier", "parseIntegerLiteral", "parseBoolean"}

\* the prefix functions that call nothing
LeafPrefix(fn, P) ==
    CASE fn = "parseIdentifier" -> parseIdentifier(P)
      [] fn = "parseIntegerLiteral" -> parseIntegerLiteral(P)
      [] fn = "parseBoolean" -> parseBoolean(P)

\* a loop that also goes on at an operator of the same precedence
ExprLoopOnEqual(P, f, rest, leftExp) ==
    LET g == [f EXCEPT !.iter = @ + 1, !.mark = Len(P.toks)]
    IN  IF ~peekTokenIs(P, SEMICOLON) /\ f.precedence <= peekPrecedence(P)
        THEN IF P.peek.Type \notin DOMAIN infixParseFns
             THEN Ret(P, rest, leftExp)
             ELSE Call(nextToken(P), rest, [g EXCEPT !.pc = "infix"],
                       [fn |-> infixParseFns[P.peek.Type], pc |-> "start",
                        left |-> leftExp])
        ELSE Ret(P, rest, leftExp)

\* the condition of parseExpression's loop, and what follows it
ExprLoop(P, f, rest, leftExp) ==
    LET g == [f EXCEPT !.iter = @ + 1, !.mark = Len(P.toks)]
    IN  IF ~peekTokenIs(P, SEMICOLON) /\ f.precedence < peekPrecedence(P)
        THEN IF P.peek.Type \notin DOMAIN infixParseFns
             THEN Ret(P, rest, leftExp)
             ELSE Call(nextToken(P), rest, [g EXCEPT !.pc = "infix"],
                       [fn |-> infixParseFns[P.peek.Type], pc |-> "start",
                        left |-> leftExp])
        ELSE Ret(P, rest, leftExp)

\* leftExp := prefix() for a prefix function that calls nothing
AfterLeaf(r, f, rest) == ExprLoop(r.P, f, rest, r.node)

parseExpression(P, f, rest, rv) ==
    IF f.pc = "start"
    THEN IF P.cur.Type \notin DOMAIN prefixParseFns
         THEN Ret(noPrefixParseFnError(P, P.cur.Type), rest, NIL)
         ELSE LET prefix == prefixParseFns[P.cur.Type]
              IN  IF prefix \in LeafPrefixFns
                  THEN AfterLeaf(LeafPrefix(prefix, P), f, rest)
                  ELSE Call(P, rest, [f EXCEPT !.pc = "prefix"], Frame(prefix))
    ELSE ExprLoop(P, f, rest, rv)

parsePrefixExpression(P, f, rest, rv) ==
    IF f.pc = "start"
    THEN Call(nextToken(P), rest,
              [fn |-> f.fn, pc |-> "right", Token |-> P.cur], ExprFrame(PREFIX))
    ELSE Ret(P, rest,
             [node |-> "PrefixExpression", Token |-> f.Token,
              Operator |-> f.Token.Literal, Right |-> rv])

parseInfixExpression(P, f, rest, rv) ==
    IF f.pc = "start"
    THEN Call(nextToken(P), rest,
              [fn |-> f.fn, pc |-> "right", Token |-> P.cur, left |-> f.left],
              ExprFrame(curPrecedence(P)))
    ELSE Ret(P, rest,
             [node |-> "InfixExpression", Token |-> f.Token,
              Operator |-> f.Token.Literal, Left |-> f.left, Right |-> rv])

\* return v when the required token was there, nil when not
Expected(e, rest, v) == Ret(e.P, rest, IF e.ok THEN v ELSE NIL)

parseGroupedExpression(P, f, rest, rv) ==
    IF f.pc = "start"
    THEN Call(nextToken(P), rest, [f EXCEPT !.pc = "exp"], ExprFrame(LOWEST))
    ELSE Expected(expectPeek(P, RPAREN), rest, rv)

\* an if expression with its two blocks exchanged
IfNodeSwapped(f, consequence, alternative) ==
    [node |-> "IfExpression", Token |-> f.Token, Condition |-> f.Condition,
     Consequence |-> alternative, Alternative |-> consequence]

IfNode(f, consequence, alternative) ==
    [node |-> "IfExpression", Token |-> f.Token, Condition |-> f.Condition,
     Consequence |-> consequence, Alternative |-> alternative]

\* after a required token: go on into the callee, or return nil
ExpectedThen(e, rest, me, callee) ==
    IF ~e.ok THEN Ret(e.P, rest, NIL) ELSE Call(e.P, rest, me, callee)

\* after a required token: skip one more token and go on, or return nil
ExpectedSkipThen(e, rest, me, callee) ==
    IF ~e.ok THEN Ret(e.P, rest, NIL) ELSE Call(nextToken(e.P), rest, me, callee)

\* parseIfExpression from expectPeek(token.RPAREN) on
IfBody(e, rest, me) ==
    IF ~e.ok THEN Ret(e.P, rest, NIL)
    ELSE ExpectedThen(expectPeek(e.P, LBRACE), rest, me, Frame("parseBlockStatement"))

parseIfExpression(P, f, rest, rv) ==
    CASE f.pc = "start" ->
            ExpectedSkipThen(expectPeek(P, LPAREN), rest,
                             [fn |-> f.fn, pc |-> "cond", Token |-> P.cur],
                             ExprFrame(LOWEST))
      [] f.pc = "cond" ->
            IfBody(expectPeek(P, RPAREN), rest,
                   [fn |-> f.fn, pc |-> "cons", Token |-> f.Token, Condition |-> rv])
      [] f.pc = "cons" ->
            IF peekTokenIs(P, ELSE_)
            THEN ExpectedThen(expectPeek(nextToken(P), LBRACE), rest,
                              [f EXCEPT !.pc = "alt"] @@ [Consequence |-> rv],
                              Frame("parseBlockStatement"))
            ELSE Ret(P, rest, IfNode(f, rv, NIL))
      [] f.pc = "alt" -> Ret(P, rest, IfNode(f, f.Consequence, rv))

\* parseFunctionLiteral from lit.Parameters = r.identifiers on
FunctionBody(r, f, rest, tok) ==
    ExpectedThen(expectPeek(r.P, LBRACE), rest,
                 [fn |-> f.fn, pc |-> "body", Token |-> tok,
                  Parameters |-> r.identifiers],
                 Frame("parseBlockStatement"))

\* parseFunctionLiteral from expectPeek(token.LPAREN) on
FunctionParameters(e, f, rest, tok) ==
    IF ~e.ok THEN Ret(e.P, rest, NIL)
    ELSE FunctionBody(parseFunctionParameters(e.P), f, rest, tok)

parseFunctionLiteral(P, f, rest, rv) ==
    IF f.pc = "start"
    THEN FunctionParameters(expectPeek(P, LPAREN), f, rest, P.cur)
    ELSE Ret(P, rest,
             [node |-> "FunctionLiteral", Token |-> f.Token,
              Parameters |-> f.Parameters, Body |-> rv])

parseCallExpression(P, f, rest, rv) ==
    IF f.pc = "start"
    THEN Call(P, rest,
              [fn |-> f.fn, pc |-> "args", Token |-> P.cur, left |-> f.left],
              Frame("parseCallArguments"))
    ELSE Ret(P, rest,
             [node |-> "CallExpression", Token |-> f.Token, Function |-> f.left,
              Arguments |-> rv])

\* an argument list gathered last argument first
parseCallArgumentsBackwards(P, f, rest, rv) ==
    IF f.pc = "start"
    THEN IF peekTokenIs(P, RPAREN)
         THEN Ret(nextToken(P), rest, Slice(<<>>))
         ELSE Call(nextToken(P), rest, [fn |-> f.fn, pc |-> "arg", args |-> <<>>],
                   ExprFrame(LOWEST))
    ELSE IF peekTokenIs(P, COMMA)
         THEN Call(nextToken(nextToken(P)), rest,
                   [f EXCEPT !.args = <<rv>> \o f.args], ExprFrame(LOWEST))
         ELSE Expected(expectPeek(P, RPAREN), rest, Slice(<<rv>> \o f.args))

parseCallArguments(P, f, rest, rv) ==
    IF f.pc = "start"
    THEN IF peekTokenIs(P, RPAREN)
         THEN Ret(nextToken(P), rest, Slice(<<>>))
         ELSE Call(nextToken(P), rest, [fn |-> f.fn, pc |-> "arg", args |-> <<>>],
                   ExprFrame(LOWEST))
    ELSE IF peekTokenIs(P, COMMA)
         THEN Call(nextToken(nextToken(P)), rest,
                   [f EXCEPT !.args = Append(f.args, rv)], ExprFrame(LOWEST))
         ELSE Expected(expectPeek(P, RPAREN), rest, Slice(Append(f.args, rv)))

\* parser.New: the parser over the lexer, with current and peek token read
New(P) == nextToken(nextToken([P EXCEPT !.errors = <<>>]))

\* the read loop's work on one line: p := New(l); program := p.ParseProgram()
Start(P, f, rest, rv) ==
    CASE f.pc = "new" -> [P |-> New(P), stack |-> <<[f EXCEPT !.pc = "parse"]>>, ret |-> NIL]
      [] f.pc = "parse" -> Call(P, rest, [f EXCEPT !.pc = "parsed"], Frame("ParseProgram"))
      [] f.pc = "parsed" -> [P |-> P, stack |-> <<>>, ret |-> NIL, result |-> rv]

-----------------------------------------------------------------------------
(* The lexer on its own: a caller that asks for one token after another,   *)
(* as the token-printing read loop does.                                   *)

NoProgram == [node |-> "none"]

\* bytes the lexer specification builds its inputs from
LexBytes ==
    {0, 32, 200, Ord("="), Ord("!"), Ord("+"), Ord("7"), Ord("i"), Ord("f"),
     Ord("@")}

SeqsUpTo(S, n) == UNION {[1..k -> S] : k \in 0..n}

\* inputs of words: the keywords, and words that differ from one by a
\* letter more, an underscore, the case, or a digit or space that ends them
LexTexts ==
    {B(<<"f", "n">>), B(<<"l", "e", "t">>), B(<<"t", "r", "u", "e">>),
     B(<<"f", "a", "l", "s", "e">>), B(<<"i", "f">>), B(<<"e", "l", "s", "e">>),
     B(<<"r", "e", "t", "u", "r", "n">>),
     B(<<"l", "e", "t", "x">>), B(<<"L", "e", "t">>), B(<<"f", "n", "_">>),
     B(<<"_">>), B(<<"r", "e", "t", "u", "r", "n", "s">>), B(<<"T", "R", "U", "E">>),
     B(<<"l", "e", "t", " ", "x", "_", "y", "=", "i", "f", "7">>),
     B(<<"e", "l", "s", "e", "(", "Z", "a", "z", "A", ")">>)}

LexInit ==
    /\ \E input \in SeqsUpTo(LexBytes, MaxLen) \cup LexTexts :
          /\ l = NewLexer(input)
          /\ given = [kind |-> "bytes"]
    /\ toks = <<>>
    /\ curToken = ZeroToken
    /\ peekToken = ZeroToken
    /\ errors = <<>>
    /\ stack = <<>>
    /\ ret = NIL
    /\ result = NoProgram

LexerTakes(r) ==
    /\ l' = r.l
    /\ toks' = Recorded(toks, r, l)

LexNextToken ==
    /\ Len(toks) < Len(l.input) + 1 + MaxExtraCalls
    /\ LexerTakes(NextToken(l))
    /\ UNCHANGED <<given, curToken, peekToken, errors, stack, ret, result>>

LexNext == LexNextToken

LexSpec == LexInit /\ [][LexNext]_vars

-----------------------------------------------------------------------------
(* Inputs of the parser specifications.  A program is written as a list of *)
(* lexemes; its source text is the lexemes joined by single spaces.        *)

Words ==
    [let |-> B(<<"l", "e", "t">>), fn |-> B(<<"f", "n">>),
     if |-> B(<<"i", "f">>), else |-> B(<<"e", "l", "s", "e">>),
     return |-> B(<<"r", "e", "t", "u", "r", "n">>),
     true |-> B(<<"t", "r", "u", "e">>), false |-> B(<<"f", "a", "l", "s", "e">>),
     add |-> B(<<"a", "d", "d">>)]
    @@ ("==" :> B(<<"=", "=">>)) @@ ("!=" :> B(<<"!", "=">>))
    @@ ("08" :> B(<<"0", "8">>)) @@ ("010" :> B(<<"0", "1", "0">>))
    @@ ("007" :> B(<<"0", "0", "7">>)) @@ ("42" :> B(<<"4", "2">>))
    @@ ("9223372036854775807" :>
          B(<<"9", "2", "2", "3", "3", "7", "2", "0", "3", "6", "8", "5", "4", "7",
              "7", "5", "8", "0", "7">>))
    @@ ("9223372036854775808" :>
          B(<<"9", "2", "2", "3", "3", "7", "2", "0", "3", "6", "8", "5", "4", "7",
              "7", "5", "8", "0", "8">>))
    @@ ("00000000000000000009" :>
          B(<<"0", "0", "0", "0", "0", "0", "0", "0", "0", "0", "0", "0", "0", "0",
              "0", "0", "0", "0", "0", "9">>))

Bytes(w) == IF w \in DOMAIN Words THEN Words[w] ELSE <<Ord(w)>>

RECURSIVE Join(_)
Join(ws) ==
    IF ws = <<>> THEN <<>>
    ELSE IF Len(ws) = 1 THEN Bytes(ws[1])
    ELSE Bytes(ws[1]) \o <<32>> \o Join(Tail(ws))

\* the programs of the specification's examples, and their unterminated kin
Samples ==
    {<<"a", "+", "b", "*", "c">>,
     <<"-", "a", "*", "b">>,
     <<"a", "+", "b", "+", "c">>,
     <<"3", ">", "5", "==", "false">>,
     <<"let", "x", "=", "5", ";">>,
     <<"if", "(", "x", "<", "y", ")", "{", "x", "}", "else", "{", "y", "}">>,
     <<"fn", "(", "x", ",", "y", ")", "{", "x", "+", "y", ";", "}">>,
     <<"add", "(", "1", ",", "2", "*", "3", ",", "4", "+", "5", ")">>,
     <<"let", "x", "5", ";">>,
     <<"return", "5">>,
     <<"return", "(", "a", "+", "b", ")", "*", "c", ";">>,
     <<"!", "true", "!=", "false">>,
     <<"let", "x", "=", "08", ";">>}

\* lexemes of the short arbitrary programs
GenLex ==
    {"a", "5", "+", "-", "*", "(", ")", "{", "}", ",", ";", "=", "let", "return",
     "if", "else", "fn", "@"}

\* every program of at most MaxTokens lexemes of GenLex
ShortPrograms == SeqsUpTo(GenLex, MaxTokens)

\* lexemes put in the place of one lexeme of an example
MutLex == {"@", ";", ")", "}", "5", "="}

\* the examples cut short, with one lexeme dropped, with one lexeme replaced
Damaged ==
    UNION {{SubSeq(ws, 1, i - 1) : i \in 1..Len(ws)}
           \cup {SubSeq(ws, 1, i - 1) \o SubSeq(ws, i + 1, Len(ws)) : i \in 1..Len(ws)}
           \cup {[ws EXCEPT ![i] = w] : i \in 1..Len(ws), w \in MutLex}
           : ws \in Samples}

\* the beginnings of the constructs
Openers ==
    {<<"let", "a">>, <<"let", "a", "=">>, <<"let", "a", "=", "5">>, <<"return">>,
     <<"(">>, <<"(", "a">>, <<"-">>, <<"a", "+">>,
     <<"if">>, <<"if", "(">>, <<"if", "(", "a">>, <<"if", "(", "a", ")">>,
     <<"if", "(", "a", ")", "{">>, <<"if", "(", "a", ")", "{", "a">>,
     <<"if", "(", "a", ")", "{", "a", "}">>,
     <<"if", "(", "a", ")", "{", "a", "}", "else">>,
     <<"if", "(", "a", ")", "{", "a", "}", "else", "{">>,
     <<"fn">>, <<"fn", "(">>, <<"fn", "(", "a">>, <<"fn", "(", "a", ",">>,
     <<"fn", "(", "a", ")">>, <<"fn", "(", "a", ")", "{">>,
     <<"fn", "(", "a", ")", "{", "a">>,
     <<"a", "(">>, <<"a", "(", "5">>, <<"a", "(", "5", ",">>}

\* a beginning, one arbitrary lexeme, and then nothing or what closes it
Unfinished ==
    {h \o t \o c : h \in Openers, t \in SeqsUpTo(GenLex, 1),
                   c \in {<<>>, <<")">>, <<")", "{", "}">>, <<"}">>}}

\* expression trees: atoms, prefix and binary operators, groups and calls.
\* An alphabet A is [atoms, pre, bin, grouped].
PlainExpressions ==
    [atoms |-> {"a", "5"}, pre |-> {"-", "!"},
     bin |-> {"==", "!=", "<", ">", "+", "-", "*", "/"}, grouped |-> FALSE]

GroupedExpressions ==
    [atoms |-> {"a"}, pre |-> {"-"}, bin |-> {"+", "*"}, grouped |-> TRUE]

Rank(op) ==
    CASE op \in {"==", "!="} -> EQUALS
      [] op \in {"<", ">"} -> LESSGREATER
      [] op \in {"+", "-"} -> SUM
      [] op \in {"*", "/"} -> PRODUCT

\* how tightly the outermost construct of a written tree holds together
Tight(t) ==
    CASE t.k = "bin" -> Rank(t.op)
      [] t.k = "pre" -> PREFIX
      [] OTHER -> CALL

\* the binary trees over the operands L and R that read back as written: a
\* looser operand would need a group around it
Binaries(A, L, R) ==
    UNION {{[k |-> "bin", op |-> op, x |-> x, y |-> y] :
               x \in {t \in L : Tight(t) >= Rank(op)},
               y \in {t \in R : Tight(t) > Rank(op)}} : op \in A.bin}

\* the groups and the calls (of up to two arguments) over S, a function from
\* sizes below n to trees
Groupings(n, S) ==
    {[k |-> "grp", x |-> x] : x \in S[n - 1]}
    \cup {[k |-> "call", f |-> f, args |-> <<>>] :
             f \in {t \in S[n - 1] : Tight(t) = CALL}}
    \cup UNION {{[k |-> "call", f |-> f, args |-> <<x>>] :
                   f \in {t \in S[i] : Tight(t) = CALL},
                   x \in S[n - 1 - i]} : i \in 1..(n - 2)}
    \cup UNION {{[k |-> "call", f |-> f, args |-> <<x, y>>] :
                   f \in {t \in S[1] : Tight(t) = CALL},
                   x \in S[i],
                   y \in S[n - 2 - i]} : i \in 1..(n - 3)}

\* the trees of n nodes, S the trees of the smaller sizes
Bigger(n, A, S) ==
    {[k |-> "pre", op |-> op, x |-> x] :
        op \in A.pre, x \in {t \in S[n - 1] : Tight(t) >= PREFIX}}
    \cup UNION {Binaries(A, S[i], S[n - 1 - i]) : i \in 1..(n - 2)}
    \cup (IF A.grouped THEN Groupings(n, S) ELSE {})

Grown(n, A, S) == Append(S, Bigger(n, A, S))

RECURSIVE BySize(_, _)
\* the trees of each size from 1 to n
BySize(n, A) ==
    IF n = 1 THEN <<{[k |-> "atom", w |-> w] : w \in A.atoms}>>
    ELSE Grown(n, A, BySize(n - 1, A))

Trees(n, A) == UNION {BySize(n, A)[i] : i \in 1..n}

RECURSIVE Written(_)
RECURSIVE WrittenStatement(_)
RECURSIVE WrittenBlock(_)
\* the lexemes of a tree, written without any group of its own
Written(t) ==
    CASE t.k = "atom" -> <<t.w>>
      [] t.k = "pre" -> <<t.op>> \o Written(t.x)
      [] t.k = "bin" -> Written(t.x) \o <<t.op>> \o Written(t.y)
      [] t.k = "grp" -> <<"(">> \o Written(t.x) \o <<")">>
      [] t.k = "call" ->
            Written(t.f) \o <<"(">>
            \o (IF Len(t.args) = 0 THEN <<>>
                ELSE IF Len(t.args) = 1 THEN Written(t.args[1])
                ELSE Written(t.args[1]) \o <<",">> \o Written(t.args[2]))
            \o <<")">>
      [] t.k = "if" ->
            <<"if", "(">> \o Written(t.c) \o <<")", "{">> \o WrittenBlock(t.then)
            \o <<"}">>
            \o (IF t.else.k = "none" THEN <<>>
                ELSE <<"else", "{">> \o WrittenBlock(t.else.ss) \o <<"}">>)
      [] t.k = "fn" ->
            <<"fn", "(">>
            \o (IF Len(t.params) = 0 THEN <<>>
                ELSE IF Len(t.params) = 1 THEN <<t.params[1]>>
                ELSE IF Len(t.params) = 2 THEN <<t.params[1], ",", t.params[2]>>
                ELSE <<t.params[1], ",", t.params[2], ",", t.params[3]>>)
            \o <<")", "{">> \o WrittenBlock(t.body) \o <<"}">>

\* the lexemes of a statement: an if or fn expression statement stands
\* without a semicolon, every other statement ends with one
WrittenStatement(st) ==
    CASE st.k = "let" -> <<"let", st.name, "=">> \o Written(st.x) \o <<";">>
      [] st.k = "ret" -> <<"return">> \o Written(st.x) \o <<";">>
      [] st.k = "es" ->
            Written(st.x) \o (IF st.x.k \in {"if", "fn"} THEN <<>> ELSE <<";">>)

WrittenBlock(ss) ==
    IF ss = <<>> THEN <<>>
    ELSE WrittenStatement(Head(ss)) \o WrittenBlock(Tail(ss))

-----------------------------------------------------------------------------
(* The parser: one action per function of the parser, run on the innermost *)
(* call.                                                                   *)

ParserFields ==
    [l |-> l, toks |-> toks, cur |-> curToken, peek |-> peekToken, errors |-> errors]

Commit(r) ==
    /\ l' = r.P.l
    /\ toks' = r.P.toks
    /\ curToken' = r.P.cur
    /\ peekToken' = r.P.peek
    /\ errors' = r.P.errors
    /\ stack' = r.stack
    /\ ret' = r.ret
    /\ result' = IF "result" \in DOMAIN r THEN r.result ELSE result
    /\ UNCHANGED given

Running(fn) == stack # <<>> /\ Head(stack).fn = fn

DoStart ==
    Running("Start") /\ Commit(Start(ParserFields, Head(stack), Tail(stack), ret))

DoParseProgram ==
    /\ Running("ParseProgram")
    /\ Commit(ParseProgram(ParserFields, Head(stack), Tail(stack), ret))

DoParseStatement ==
    /\ Running("parseStatement")
    /\ Commit(parseStatement(ParserFields, Head(stack), Tail(stack), ret))

DoParseLetStatement ==
    /\ Running("parseLetStatement")
    /\ Commit(parseLetStatement(ParserFields, Head(stack), Tail(stack), ret))

DoParseReturnStatement ==
    /\ Running("parseReturnStatement")
    /\ Commit(parseReturnStatement(ParserFields, Head(stack), Tail(stack), ret))

DoParseExpressionStatement ==
    /\ Running("parseExpressionStatement")
    /\ Commit(parseExpressionStatement(ParserFields, Head(stack), Tail(stack), ret))

DoParseExpression ==
    /\ Running("parseExpression")
    /\ Commit(parseExpression(ParserFields, Head(stack), Tail(stack), ret))

DoParsePrefixExpression ==
    /\ Running("parsePrefixExpression")
    /\ Commit(parsePrefixExpression(ParserFields, Head(stack), Tail(stack), ret))

DoParseInfixExpression ==
    /\ Running("parseInfixExpression")
    /\ Commit(parseInfixExpression(ParserFields, Head(stack), Tail(stack), ret))

DoParseGroupedExpression ==
    /\ Running("parseGroupedExpression")
    /\ Commit(parseGroupedExpression(ParserFields, Head(stack), Tail(stack), ret))

DoParseIfExpression ==
    /\ Running("parseIfExpression")
    /\ Commit(parseIfExpression(ParserFields, Head(stack), Tail(stack), ret))

DoParseFunctionLiteral ==
    /\ Running("parseFunctionLiteral")
    /\ Commit(parseFunctionLiteral(ParserFields, Head(stack), Tail(stack), ret))

DoParseCallExpression ==
    /\ Running("parseCallExpression")
    /\ Commit(parseCallExpression(ParserFields, Head(stack), Tail(stack), ret))

DoParseCallArguments ==
    /\ Running("parseCallArguments")
    /\ Commit(parseCallArguments(ParserFields, Head(stack), Tail(stack), ret))

DoParseBlockStatement ==
    /\ Running("parseBlockStatement")
    /\ Commit(parseBlockStatement(ParserFields, Head(stack), Tail(stack), ret))

Next ==
    \/ DoStart
    \/ DoParseProgram
    \/ DoParseStatement
    \/ DoParseLetStatement
    \/ DoParseReturnStatement
    \/ DoParseExpressionStatement
    \/ DoParseExpression
    \/ DoParsePrefixExpression
    \/ DoParseInfixExpression
    \/ DoParseGroupedExpression
    \/ DoParseIfExpression
    \/ DoParseFunctionLiteral
    \/ DoParseCallExpression
    \/ DoParseCallArguments
    \/ DoParseBlockStatement

\* the state in which the read loop has built the lexer over the line
InitOn(g, input) ==
    /\ given = g
    /\ l = NewLexer(input)
    /\ toks = <<>>
    /\ curToken = ZeroToken
    /\ peekToken = ZeroToken
    /\ errors = <<>>
    /\ stack = <<[fn |-> "Start", pc |-> "new"]>>
    /\ ret = NIL
    /\ result = NoProgram

OnLexemes(ws) == InitOn([kind |-> "lexemes", lexemes |-> ws], Join(ws))

OnTree(kind, t) ==
    InitOn([kind |-> kind, tree |-> t, lexemes |-> Written(t)], Join(Written(t)))

PlainTrees == Trees(MaxNodes, PlainExpressions)

GroupedTrees == Trees(MaxGroupedNodes, GroupedExpressions)

Init ==
    \/ \E ws \in Samples \cup Damaged \cup Unfinished \cup ShortPrograms : OnLexemes(ws)
    \/ \E t \in PlainTrees : OnTree("plain", t)
    \/ \E t \in GroupedTrees : OnTree("grouped", t)

Spec == Init /\ [][Next]_vars

\* the parser, never stopped in the middle of a parse: a running call takes
\* its next step.  This is weak fairness of Next with its enabling condition
\* written out: a step is possible exactly while a call is on the stack.
FairSpec ==
    Init /\ [][Next]_vars /\ ([]<>(Len(stack) = 0) \/ []<><<Next>>_vars)

Done == stack = <<>>

-----------------------------------------------------------------------------
(* The parser on whole statements: let and return statements over small    *)
(* expressions, if expressions and function literals over short blocks,    *)
(* and integer lexemes.                                                    *)

StatementExpressions ==
    [atoms |-> {"a", "5"}, pre |-> {"-"}, bin |-> {"+", "*"}, grouped |-> TRUE]

StatementTrees == Trees(MaxStatementNodes, StatementExpressions)

Atom(w) == [k |-> "atom", w |-> w]

NoBlock == [k |-> "none"]

Block(ss) == [k |-> "block", ss |-> ss]

Lets == {[k |-> "let", name |-> n, x |-> t] : n \in {"x", "y"}, t \in StatementTrees}

Returns == {[k |-> "ret", x |-> t] : t \in StatementTrees}

\* the statements the blocks are made of; the last holds a block of its own
BlockStatements ==
    {[k |-> "es", x |-> Atom("a")],
     [k |-> "let", name |-> "x", x |-> Atom("5")],
     [k |-> "es", x |-> [k |-> "if", c |-> Atom("a"),
                         then |-> <<[k |-> "ret", x |-> Atom("b")]>>,
                         else |-> NoBlock]]}

Blocks == SeqsUpTo(BlockStatements, MaxBlock)

Conditions == {Atom("a"), [k |-> "bin", op |-> "<", x |-> Atom("x"), y |-> Atom("y")]}

Ifs ==
    {[k |-> "es", x |-> [k |-> "if", c |-> c, then |-> th, else |-> el]] :
        c \in Conditions, th \in Blocks, el \in {NoBlock} \cup {Block(b) : b \in Blocks}}

Fns ==
    {[k |-> "es", x |-> [k |-> "fn", params |-> ps, body |-> b]] :
        ps \in SeqsUpTo({"x", "y"}, MaxParams), b \in Blocks}

\* integer lexemes: small, with leading zeros, the largest that fits, the
\* smallest that does not
Numbers ==
    {"0", "5", "42", "08", "010", "007", "9223372036854775807",
     "9223372036854775808", "00000000000000000009"}

NumberPrograms ==
    {<<w>> : w \in Numbers} \cup {<<"let", "x", "=", w, ";">> : w \in Numbers}

OnStatement(st) ==
    InitOn([kind |-> "statement", tree |-> st, lexemes |-> WrittenStatement(st)],
           Join(WrittenStatement(st)))

StatementInit ==
    \/ \E ws \in Samples \cup NumberPrograms \cup {<<"return", ";">>} : OnLexemes(ws)
    \/ \E st \in Lets \cup Returns \cup Ifs \cup Fns : OnStatement(st)

StatementSpec == StatementInit /\ [][Next]_vars

-----------------------------------------------------------------------------
(* Properties of the trees the parser builds                               *)

RECURSIVE Shape(_)
RECURSIVE ShapeStatement(_)
RECURSIVE ShapeBlock(_)
\* an expression node without its tokens: what is nested in what
Shape(n) ==
    CASE n = NIL -> NIL
      [] n.node \in {"Identifier", "IntegerLiteral", "Boolean"} ->
            [k |-> "atom", w |-> n.Token.Literal]
      [] n.node = "PrefixExpression" ->
            [k |-> "pre", op |-> n.Operator, x |-> Shape(n.Right)]
      [] n.node = "InfixExpression" ->
            [k |-> "bin", op |-> n.Operator, x |-> Shape(n.Left), y |-> Shape(n.Right)]
      [] n.node = "CallExpression" ->
            [k |-> "call", f |-> Shape(n.Function),
             args |-> IF n.Arguments = NIL THEN NIL
                      ELSE [i \in 1..Len(n.Arguments.elems) |->
                               Shape(n.Arguments.elems[i])]]
      [] n.node = "IfExpression" ->
            [k |-> "if", c |-> Shape(n.Condition), then |-> ShapeBlock(n.Consequence),
             else |-> ShapeBlock(n.Alternative)]
      [] n.node = "FunctionLiteral" ->
            [k |-> "fn",
             params |-> IF n.Parameters = NIL THEN NIL
                        ELSE [k |-> "params",
                              names |-> [i \in 1..Len(n.Parameters.elems) |->
                                            n.Parameters.elems[i].Value]],
             body |-> ShapeBlock(n.Body)]
      [] OTHER -> [k |-> n.node]

\* a statement node without its tokens
ShapeStatement(n) ==
    CASE n.node = "LetStatement" ->
            [k |-> "let", name |-> n.Name.Value, x |-> Shape(n.Value)]
      [] n.node = "ReturnStatement" -> [k |-> "ret", x |-> Shape(n.ReturnValue)]
      [] n.node = "ExpressionStatement" -> [k |-> "es", x |-> Shape(n.Expression)]
      [] OTHER -> [k |-> n.node]

\* a block without its tokens: its statements in order, or no block
ShapeBlock(n) ==
    IF n = NIL THEN NoBlock
    ELSE Block([i \in 1..Len(n.Statements) |-> ShapeStatement(n.Statements[i])])

RECURSIVE Meant(_)
RECURSIVE MeantStatement(_)
RECURSIVE MeantBlock(_)
\* the nesting a written tree stands for: a group is its inner expression
Meant(t) ==
    CASE t.k = "atom" -> [k |-> "atom", w |-> Bytes(t.w)]
      [] t.k = "pre" -> [k |-> "pre", op |-> Bytes(t.op), x |-> Meant(t.x)]
      [] t.k = "bin" ->
            [k |-> "bin", op |-> Bytes(t.op), x |-> Meant(t.x), y |-> Meant(t.y)]
      [] t.k = "grp" -> Meant(t.x)
      [] t.k = "call" ->
            [k |-> "call", f |-> Meant(t.f),
             args |-> [i \in 1..Len(t.args) |-> Meant(t.args[i])]]
      [] t.k = "if" ->
            [k |-> "if", c |-> Meant(t.c), then |-> MeantBlock(t.then),
             else |-> IF t.else.k = "none" THEN NoBlock ELSE MeantBlock(t.else.ss)]
      [] t.k = "fn" ->
            [k |-> "fn",
             params |-> [k |-> "params",
                         names |-> [i \in 1..Len(t.params) |-> Bytes(t.params[i])]],
             body |-> MeantBlock(t.body)]

\* the statement a written statement stands for
MeantStatement(st) ==
    CASE st.k = "let" -> [k |-> "let", name |-> Bytes(st.name), x |-> Meant(st.x)]
      [] st.k = "ret" -> [k |-> "ret", x |-> Meant(st.x)]
      [] st.k = "es" -> [k |-> "es", x |-> Meant(st.x)]

MeantBlock(ss) == Block([i \in 1..Len(ss) |-> MeantStatement(ss[i])])

\* the program is one expression statement
OneExpression(program) ==
    /\ program # NoProgram
    /\ Len(program.Statements) = 1
    /\ program.Statements[1].node = "ExpressionStatement"

\* the parse of a written tree gave that tree, and no diagnostic
ParsedAsMeant ==
    /\ errors = <<>>
    /\ OneExpression(result)
    /\ Shape(result.Statements[1].Expression) = Meant(given.tree)

\* the parse of the lexemes ws is over and renders as text
Renders(ws, text) == (Done /\ given.lexemes = ws) => String(result) = B(text)

\* C1: an expression of identifiers, integers, the binary operators
\* == != < > + - * / and the prefix operators - and ! parses without a
\* diagnostic to the tree in which an operator of higher rank lies deeper than
\* an adjacent one of lower rank, adjacent binary operators of equal rank nest
\* to the left, and a prefix operator takes only the operand right after it;
\* and the four examples render fully parenthesised as stated.
C1_BindingPower ==
    /\ (Done /\ given.kind = "plain") => ParsedAsMeant
    /\ Renders(<<"a", "+", "b", "*", "c">>,
               <<"(", "a", " ", "+", " ", "(", "b", " ", "*", " ", "c", ")", ")">>)
    /\ Renders(<<"a", "+", "b", "+", "c">>,
               <<"(", "(", "a", " ", "+", " ", "b", ")", " ", "+", " ", "c", ")">>)
    /\ Renders(<<"-", "a", "*", "b">>,
               <<"(", "(", "-", "a", ")", " ", "*", " ", "b", ")">>)
    /\ Renders(<<"3", ">", "5", "==", "false">>,
               <<"(", "(", "3", " ", ">", " ", "5", ")", " ", "=", "=", " ",
                 "f", "a", "l", "s", "e", ")">>)

\* a parsed expression of two different binary operators of the same rank
C1_Witness ==
    /\ Done
    /\ given.kind = "plain"
    /\ given.tree.k = "bin"
    /\ given.tree.x.k = "bin"
    /\ Rank(given.tree.x.op) = Rank(given.tree.op)
    /\ given.tree.x.op # given.tree.op
    /\ result.Statements[1].Expression.Left.node = "InfixExpression"

\* C2: an opening parenthesis where an expression starts gives the inner
\* expression, parsed at LOWEST and closed by the closing parenthesis; one
\* after a finished left operand gives a CallExpression whose callee is that
\* operand and whose arguments are the comma-separated expressions up to the
\* matching closing parenthesis, in source order; all without a diagnostic.
\* add(1, 2 * 3, 4 + 5) gives the callee add and the arguments 1, (2 * 3),
\* (4 + 5).
C2_ParenByPosition ==
    /\ (Done /\ given.kind = "grouped") => ParsedAsMeant
    /\ (Done /\ given.lexemes = <<"add", "(", "1", ",", "2", "*", "3", ",", "4", "+", "5", ")">>) =>
          /\ errors = <<>>
          /\ OneExpression(result)
          /\ Shape(result.Statements[1].Expression) =
                Meant([k |-> "call", f |-> [k |-> "atom", w |-> "add"],
                       args |-> <<[k |-> "atom", w |-> "1"],
                                  [k |-> "bin", op |-> "*",
                                   x |-> [k |-> "atom", w |-> "2"],
                                   y |-> [k |-> "atom", w |-> "3"]],
                                  [k |-> "bin", op |-> "+",
                                   x |-> [k |-> "atom", w |-> "4"],
                                   y |-> [k |-> "atom", w |-> "5"]]>>])

\* a parsed call of a grouped callee with two arguments, the first a group
C2_Witness ==
    /\ Done
    /\ given.kind = "grouped"
    /\ given.tree.k = "call"
    /\ Len(given.tree.args) = 2
    /\ given.tree.args[1].k = "grp"
    /\ result.Statements[1].Expression.node = "CallExpression"
    /\ Len(result.Statements[1].Expression.Arguments.elems) = 2

-----------------------------------------------------------------------------
(* Properties of the parser's steps and diagnostics                        *)

IsPeekError(e) == "expected" \in DOMAIN e

\* parseLetStatement is about to run on a name that no = follows
LetWithoutAssign ==
    /\ Running("parseLetStatement")
    /\ Head(stack).pc = "start"
    /\ peekToken.Type = IDENT
    /\ NextToken(l).tok.Type # ASSIGN

\* what parseLetStatement does then: the name is taken, the token after it is
\* looked at and left in place, one diagnostic is added, nil is returned
LetFailsOnce(found) ==
    /\ errors' = Append(errors, [msg |-> "expected next token to be, got instead",
                                 expected |-> ASSIGN, got |-> found.Type])
    /\ Len(toks') = Len(toks) + 1
    /\ curToken' = peekToken
    /\ peekToken' = found
    /\ stack' = Tail(stack)
    /\ ret' = NIL

\* no let statement anywhere in the statements of the program
NoLetStatement(program) ==
    \A i \in 1..Len(program.Statements) : program.Statements[i].node # "LetStatement"

\* C3: a let statement whose name is not followed by = records exactly one
\* diagnostic, which names the expected = and the kind of the token found,
\* consumes no token at the failed check and yields no LetStatement; the
\* parse then runs on to end-of-input; and the parse of let x 5; ends with
\* exactly that one diagnostic.
C3_LetWithoutAssign ==
    /\ [][LetWithoutAssign => LetFailsOnce(NextToken(l).tok)]_vars
    /\ [](Done => curToken.Type = EOF)
    /\ []((Done /\ given.lexemes = <<"let", "x", "5", ";">>) =>
             /\ errors = <<[msg |-> "expected next token to be, got instead",
                            expected |-> ASSIGN, got |-> INT]>>
             /\ NoLetStatement(result))

\* the parse of let x 5; is over: one diagnostic, and the 5 parsed after it
C3_Witness ==
    /\ Done
    /\ given.lexemes = <<"let", "x", "5", ";">>
    /\ Len(errors) = 1
    /\ Len(result.Statements) = 1
    /\ result.Statements[1].node = "ExpressionStatement"

\* the innermost call is a loop that has run its body and is back at its
\* condition
BackAtCondition ==
    /\ stack # <<>>
    /\ "iter" \in DOMAIN Head(stack)
    /\ Head(stack).pc \in {"stmt", "infix"}

\* more tokens were taken by this evaluation of the condition than by the one
\* before; the loop either goes into its body again or returns
ConsumedSince(mark) ==
    IF Len(stack') > Len(stack)
    THEN stack'[2].mark >= mark + 1
    ELSE Len(toks') >= mark + 1

\* C6: ParseProgram returns on every input, unterminated ones included;
\* every iteration of the statement loops of ParseProgram and
\* parseBlockStatement and of the infix loop of parseExpression consumes at
\* least one token; and when the parse has stopped the current token is
\* end-of-input.
C6_Terminates ==
    /\ [][BackAtCondition => ConsumedSince(Head(stack).mark)]_vars
    /\ [](Done => curToken.Type = EOF)
    /\ <>Done

\* the parse of a block with no closing brace is over
C6_Witness ==
    /\ Done
    /\ given.lexemes = <<"fn", "(", "x", ",", "y", ")", "{", "x", "+", "y", ";">>
    /\ curToken.Type = EOF
    /\ result # NoProgram

IsPrefix(a, b) == Len(a) <= Len(b) /\ SubSeq(b, 1, Len(a)) = a

\* C7: at every step the diagnostic list is the list of the step before, or
\* that list with entries appended at its end.
C7_AppendOnly == [][IsPrefix(errors, errors')]_vars

\* diagnostics of two different kinds, one after the other
C7_Witness ==
    /\ Len(errors) >= 2
    /\ IsPeekError(errors[1])
    /\ ~IsPeekError(errors[2])

\* the functions of the constructs that check for a required token
Constructs ==
    {"parseLetStatement", "parseGroupedExpression", "parseIfExpression",
     "parseFunctionLiteral", "parseCallArguments"}

\* this step of a construct adds the diagnostic of a failed expectPeek
RequiredTokenMissed ==
    /\ stack # <<>>
    /\ Head(stack).fn \in Constructs
    /\ \E i \in (Len(errors) + 1)..Len(errors') : IsPeekError(errors'[i])

\* parseCallExpression has its argument list back, and the list failed
ArgumentListFailed ==
    /\ Running("parseCallExpression")
    /\ Head(stack).pc = "args"
    /\ ret = NIL

\* the innermost call returns nil
YieldsNoNode == stack' = Tail(stack) /\ ret' = NIL

\* C8: whenever a required-token check fails inside a let statement, a
\* group, an if expression, a function literal or its parameter list, or a
\* call expression's argument list, the construct returns no node.
C8_FailedConstructYieldsNoNode ==
    [][(RequiredTokenMissed \/ ArgumentListFailed) => YieldsNoNode]_vars

\* a call expression was returned whose argument list failed
C8_CallWithoutArguments ==
    /\ ret.node = "CallExpression"
    /\ ret.Arguments = NIL
    /\ \E i \in 1..Len(errors) : IsPeekError(errors[i]) /\ errors[i].expected = RPAREN

\* how many of the lexemes ws are w
RECURSIVE Count(_, _)
Count(ws, w) ==
    IF ws = <<>> THEN 0
    ELSE (IF Head(ws) = w THEN 1 ELSE 0) + Count(Tail(ws), w)

\* the input ends with a brace or a parenthesis still open
Unclosed(ws) ==
    \/ Count(ws, "{") > Count(ws, "}")
    \/ Count(ws, "(") > Count(ws, ")")

\* C9: when the input ends inside a construct (a block without its closing
\* brace; a group, an argument list or a parameter list without its closing
\* parenthesis), the diagnostic list is not empty when ParseProgram returns.
C9_UnclosedIsDiagnosed ==
    (Done /\ Unclosed(given.lexemes)) => errors # <<>>

\* the parse of an if whose block is never closed is over, nothing diagnosed
C9_SilentOpenBlock ==
    /\ Done
    /\ given.lexemes = <<"if", "(", "a", ")", "{", "a">>
    /\ errors = <<>>
    /\ result.Statements[1].Expression.node = "IfExpression"

\* the lexer gave the parser a token of kind ILLEGAL
IllegalSeen == \E i \in 1..Len(toks) : toks[i].tok.Type = ILLEGAL

\* C10: for every input whose tokens include an ILLEGAL one, wherever it
\* stands, the diagnostic list is not empty when ParseProgram returns.
C10_IllegalIsDiagnosed == (Done /\ IllegalSeen) => errors # <<>>

\* the parse of a function literal with an illegal token as its parameter is
\* over, nothing diagnosed
C10_SilentIllegalParameter ==
    /\ Done
    /\ given.lexemes = <<"fn", "(", "@", ")", "{", "}">>
    /\ IllegalSeen
    /\ errors = <<>>

\* parseFunctionLiteral is about to run on fn followed by (
FunctionLiteralStarts ==
    /\ Running("parseFunctionLiteral")
    /\ Head(stack).pc = "start"
    /\ peekToken.Type = LPAREN

\* the parameter nodes parseFunctionParameters builds, P the parser standing
\* on the opening parenthesis
ParameterNodes(P) ==
    IF peekTokenIs(P, RPAREN) THEN <<>>
    ELSE parameters(nextToken(P), <<>>).identifiers

AllFromIdentifiers(nodes) == \A i \in 1..Len(nodes) : nodes[i].Token.Type = IDENT

\* C11: every parameter node of a function literal comes from an identifier
\* token, and a token of another kind in a parameter position records a
\* diagnostic.
C11_ParametersAreIdentifiers ==
    [][FunctionLiteralStarts =>
          \/ AllFromIdentifiers(ParameterNodes(nextToken(ParserFields)))
          \/ Len(errors') > Len(errors)]_vars

\* a function literal was returned whose parameter came from an integer token
C11_IntegerParameter ==
    /\ ret.node = "FunctionLiteral"
    /\ ret.Parameters # NIL
    /\ Len(ret.Parameters.elems) = 1
    /\ ret.Parameters.elems[1].Token.Type = INT
    /\ errors = <<>>

\* the byte at offset i of the buffer, 0 beyond its end
ByteAt(lx, i) == IF i < Len(lx.input) THEN lx.input[i + 1] ELSE 0

\* the token of the call just made
LastToken(hist) == hist[Len(hist)].tok

\* the call made on a lexer whose first byte after white space, at offset
\* at, is the operator byte first: the token it must return and the cursor
\* it must leave, for the kinds two (paired with '=') and one (alone)
GreedyPair(first, two, one, at, next, tok, after) ==
    IF next = Ord("=")
    THEN tok = Token(two, <<first, Ord("=")>>) /\ after.position = at + 2
    ELSE tok = Token(one, <<first>>) /\ after.position = at + 1

GreedyAt(s, tok, after) ==
    /\ s.ch = Ord("=") =>
          GreedyPair(s.ch, EQ, ASSIGN, s.position, ByteAt(s, s.position + 1), tok, after)
    /\ s.ch = Ord("!") =>
          GreedyPair(s.ch, NOT_EQ, BANG, s.position, ByteAt(s, s.position + 1), tok, after)

\* the lexer holds the byte at its cursor and has read no byte after it
OneByteHeld(lx) ==
    /\ lx.readPosition = lx.position + 1
    /\ lx.ch = ByteAt(lx, lx.position)

TripleEqual == <<Ord("="), Ord("="), Ord("=")>>

\* C14: when the current byte is = (or !) and the next byte is =, NextToken
\* returns one == (or !=) token with the two-byte literal and advances two
\* bytes; otherwise it returns the one-byte = (or !) token and advances one
\* byte; the choice looks at no byte beyond the one after the current byte,
\* and === lexes as == then =.
C14_GreedyOneByteLookahead ==
    [][/\ Len(toks') = Len(toks) + 1
       /\ GreedyAt(skipWhitespace(l), LastToken(toks'), l')
       /\ OneByteHeld(l')
       /\ (l.input = TripleEqual /\ Len(toks') = 2) =>
             /\ toks'[1].tok = Token(EQ, <<Ord("="), Ord("=")>>)
             /\ toks'[2].tok = Token(ASSIGN, <<Ord("=")>>)]_vars

\* === has been lexed into == and =
C14_Witness ==
    /\ l.input = TripleEqual
    /\ Len(toks) = 2
    /\ toks[1].tok.Type = EQ
    /\ toks[2].tok.Type = ASSIGN
    /\ toks[2].before = 2
    /\ toks[2].after = 3

RECURSIVE RunEnd(_, _)
\* the offset of the first byte at or after offset i that is no letter and
\* no underscore
RunEnd(lx, i) == IF isLetter(ByteAt(lx, i)) THEN RunEnd(lx, i + 1) ELSE i

\* the kind of a word: the seven keywords, spelled as they are, and the
\* identifier kind for every other word
KindOfWord(w) ==
    CASE w = B(<<"f", "n">>) -> FUNCTION
      [] w = B(<<"l", "e", "t">>) -> LET_
      [] w = B(<<"t", "r", "u", "e">>) -> TRUE_
      [] w = B(<<"f", "a", "l", "s", "e">>) -> FALSE_
      [] w = B(<<"i", "f">>) -> IF_
      [] w = B(<<"e", "l", "s", "e">>) -> ELSE_
      [] w = B(<<"r", "e", "t", "u", "r", "n">>) -> RETURN
      [] OTHER -> IDENT

\* the call made on a lexer whose first byte after white space is a letter
\* or an underscore: the token returned and the lexer left
WordAt(s, tok, after) ==
    isLetter(s.ch) =>
        /\ tok.Literal = SubSeq(s.input, s.position + 1, RunEnd(s, s.position))
        /\ after.position = RunEnd(s, s.position)
        /\ tok.Type = KindOfWord(tok.Literal)

\* C15: when the current byte is an ASCII letter or underscore, NextToken
\* returns a token whose literal is the maximal run of letters and
\* underscores starting there, leaves the cursor on the first byte after the
\* run, and gives it a keyword kind exactly when the whole run is one of fn,
\* let, true, false, if, else, return (case-sensitive), the identifier kind
\* otherwise; letx is one identifier and let is the keyword.
C15_MaximalWord ==
    [][/\ WordAt(skipWhitespace(l), LastToken(toks'), l')
       /\ (l.input = B(<<"l", "e", "t", "x">>) /\ Len(toks') = 1) =>
             LastToken(toks') = Token(IDENT, B(<<"l", "e", "t", "x">>))
       /\ (l.input = B(<<"l", "e", "t">>) /\ Len(toks') = 1) =>
             LastToken(toks') = Token(LET_, B(<<"l", "e", "t">>))]_vars

\* letx has been lexed into one identifier, the cursor at the end of input
C15_Witness ==
    /\ l.input = B(<<"l", "e", "t", "x">>)
    /\ Len(toks) = 1
    /\ toks[1].tok = Token(IDENT, B(<<"l", "e", "t", "x">>))
    /\ toks[1].before = 0
    /\ toks[1].after = 4

\* the bytes of the one-byte and two-byte operators and of the delimiters
OperatorBytes ==
    {Ord("="), Ord("!"), Ord("+"), Ord("-"), Ord("*"), Ord("/"), Ord("<"),
     Ord(">"), Ord(","), Ord(";"), Ord("("), Ord(")"), Ord("{"), Ord("}")}

WhiteSpaceBytes == {32, 9, 10, 13}

\* a byte that starts no token of the language
OtherByte(b) ==
    /\ b \notin WhiteSpaceBytes
    /\ b \notin OperatorBytes
    /\ ~isLetter(b)
    /\ ~isDigit(b)

\* the call made on a lexer whose first byte after white space is a byte of
\* the buffer that starts no token: the token returned and the lexer left
OtherByteAt(s, tok, after) ==
    (s.position < Len(s.input) /\ OtherByte(s.input[s.position + 1])) =>
        /\ tok = Token(ILLEGAL, <<s.input[s.position + 1]>>)
        /\ after.position = s.position + 1

\* C16: every byte of the buffer that is not white space, not an operator
\* or delimiter character, not an ASCII letter or underscore and not an
\* ASCII digit, the NUL byte and the bytes from 0x80 on included, makes
\* NextToken return the ILLEGAL token whose literal is exactly that one
\* byte, and moves the cursor by exactly one byte.
C16_OtherByteIsIllegal ==
    [][OtherByteAt(skipWhitespace(l), LastToken(toks'), l')]_vars

\* the byte 200 came back as an ILLEGAL token with a literal of two bytes
C16_TwoByteLiteral ==
    /\ l.input = <<200>>
    /\ Len(toks) = 1
    /\ toks[1].tok.Type = ILLEGAL
    /\ toks[1].tok.Literal = <<195, 136>>
    /\ toks[1].after = 1

\* a NUL byte in the buffer came back as the EOF token
C16_NulIsEOF ==
    /\ l.input = <<0, Ord("@")>>
    /\ Len(toks) = 1
    /\ toks[1].tok = Token(EOF, <<>>)
    /\ toks[1].after = 1

\* parseExpression is entered on a token that no prefix function is
\* registered for
NoPrefixHere ==
    /\ Running("parseExpression")
    /\ Head(stack).pc = "start"
    /\ curToken.Type \notin DOMAIN prefixParseFns

\* C20: when parseExpression is entered with a current token whose kind has
\* no prefix function, it appends exactly one diagnostic naming that token
\* kind, consumes no token (current and peek token unchanged) and returns
\* no expression.
C20_NoPrefixFunction ==
    [][NoPrefixHere =>
          /\ Len(errors') = Len(errors) + 1
          /\ IsPrefix(errors, errors')
          /\ errors'[Len(errors')].msg = "no prefix parse function for found"
          /\ errors'[Len(errors')].type = curToken.Type
          /\ curToken' = curToken
          /\ peekToken' = peekToken
          /\ toks' = toks
          /\ l' = l
          /\ stack' = Tail(stack)
          /\ ret' = NIL]_vars

\* an expression was asked for at a closing parenthesis: one diagnostic
\* names the kind ), and the parser still stands on that token
C20_Witness ==
    /\ Len(errors) = 1
    /\ errors[1].msg = "no prefix parse function for found"
    /\ errors[1].type = RPAREN
    /\ curToken.Type = RPAREN
    /\ ret = NIL
    /\ stack # <<>>
    /\ Head(stack).fn # "parseExpression"

RECURSIVE TokenStream(_, _)
RECURSIVE StreamAfter(_, _)
\* the first n tokens a lexer in the state lx gives
TokenStream(lx, n) == IF n = 0 THEN <<>> ELSE StreamAfter(NextToken(lx), n)

\* the token of the call r, and the n - 1 tokens after it
StreamAfter(r, n) == <<r.tok>> \o TokenStream(r.l, n - 1)

\* the tokens the lexer has been asked for, in the order of the calls
Asked(hist) == [i \in 1..Len(hist) |-> hist[i].tok]

\* the lexer over input has been asked for the n = k + 2 first tokens of its
\* stream and no other, and cur and peek are the last two of them
LookaheadOn(stream, n, hist, cur, peek) ==
    /\ n >= 2
    /\ Asked(hist) = stream
    /\ cur = stream[n - 1]
    /\ peek = stream[n]

LookaheadAt(input, hist, cur, peek) ==
    LookaheadOn(TokenStream(NewLexer(input), Len(hist)), Len(hist), hist, cur, peek)

\* the first parsing call is about to start
FirstCall(stk) ==
    /\ stk # <<>>
    /\ Head(stk).fn = "ParseProgram"
    /\ Head(stk).pc = "start"

\* C21: after New and after every parser operation the current token and
\* the peek token are the k-th and (k+1)-th tokens of the lexer's token
\* stream for some k >= 0, the lexer has been asked for exactly k + 2
\* tokens, and k never decreases; the first parsing call starts with the
\* first token as current and the second as peek token.
C21_Lookahead ==
    [][/\ LookaheadAt(l'.input, toks', curToken', peekToken')
       /\ Len(toks') >= Len(toks)
       /\ IsPrefix(toks, toks')
       /\ l'.input = l.input
       /\ FirstCall(stack') => Len(toks') = 2]_vars

\* a parse is over that asked the lexer for more than six tokens, the
\* current and the peek token being the last two of them
C21_Witness ==
    /\ Done
    /\ Len(toks) > 6
    /\ curToken = toks[Len(toks) - 1].tok
    /\ peekToken = toks[Len(toks)].tok
    /\ toks[1].tok.Type = LET_
    /\ curToken.Type = EOF

-----------------------------------------------------------------------------
(* Properties of whole statements                                          *)

\* the parse is over and gave the one statement that was written
OneStatementAsMeant ==
    /\ errors = <<>>
    /\ result # NoProgram
    /\ Len(result.Statements) = 1
    /\ ShapeStatement(result.Statements[1]) = MeantStatement(given.tree)

ReturnWritten == given.kind = "statement" /\ given.tree.k = "ret"

BareReturn == given.lexemes = <<"return", ";">>

\* C12: the expression of a return statement is optional.  The input
\* return ; parses to one ReturnStatement with no value and no diagnostic;
\* the input return EXPR ; parses to one ReturnStatement whose value is the
\* tree of EXPR, and parseReturnStatement returns with the current token on
\* the semicolon.
C12_ReturnValueOptional ==
    /\ (Done /\ BareReturn) =>
          /\ errors = <<>>
          /\ Len(result.Statements) = 1
          /\ result.Statements[1].node = "ReturnStatement"
          /\ result.Statements[1].ReturnValue = NIL
    /\ (ReturnWritten /\ ret.node = "ReturnStatement") =>
          /\ curToken.Type = SEMICOLON
          /\ ShapeStatement(ret) = MeantStatement(given.tree)
    /\ (Done /\ ReturnWritten) => OneStatementAsMeant

\* return ; is parsed to the end, with a diagnostic for the semicolon
C12_BareReturnDiagnosed ==
    /\ Done
    /\ BareReturn
    /\ Len(result.Statements) = 1
    /\ result.Statements[1].node = "ReturnStatement"
    /\ result.Statements[1].ReturnValue = NIL
    /\ Len(errors) = 1
    /\ errors[1].type = SEMICOLON

\* the part on return EXPR ; alone
C12_ReturnWithValue ==
    /\ (ReturnWritten /\ ret.node = "ReturnStatement") =>
          /\ curToken.Type = SEMICOLON
          /\ ShapeStatement(ret) = MeantStatement(given.tree)
    /\ (Done /\ ReturnWritten) => OneStatementAsMeant

\* parseExpression is about to call parseIntegerLiteral on the current token
IntegerLexemeHere ==
    /\ Running("parseExpression")
    /\ Head(stack).pc = "start"
    /\ curToken.Type = INT

\* the value of a run of digits read in base ten
DecimalValue(lit) == Accumulate(<<>>, 10, lit)

\* what the claim asks of parseIntegerLiteral on the lexeme lit: the node
\* it yields and the diagnostics before and after it
IntegerOutcome(lit, node, before, after) ==
    IF ExceedsInt64(DecimalValue(lit))
    THEN node = NIL /\ Len(after) = Len(before) + 1 /\ IsPrefix(before, after)
    ELSE /\ node # NIL
         /\ node.node = "IntegerLiteral"
         /\ node.Value = DecimalValue(lit)
         /\ after = before

\* the left operand parseExpression goes on with after its prefix function
LeftExpAfter(before, after, returned) ==
    IF Len(after) < Len(before) THEN returned ELSE after[1].left

\* C13: for every integer lexeme (a non-empty run of ASCII digits, leading
\* zeros included) parseIntegerLiteral yields an IntegerLiteral whose value
\* is the decimal value of the lexeme when that value fits a signed 64-bit
\* integer, and records exactly one diagnostic and yields no node exactly
\* when it does not fit.
C13_DecimalValue ==
    [][IntegerLexemeHere =>
          IntegerOutcome(curToken.Literal, LeftExpAfter(stack, stack', ret'),
                         errors, errors')]_vars

\* 08 fits, and is refused with a diagnostic
C13_LeadingZeroRefused ==
    /\ Done
    /\ given.lexemes = <<"08">>
    /\ ~ExceedsInt64(DecimalValue(Bytes("08")))
    /\ Len(errors) = 1
    /\ errors[1].literal = Bytes("08")
    /\ Len(result.Statements) = 1
    /\ result.Statements[1].Expression = NIL

\* 010 is read as eight
C13_LeadingZeroOctal ==
    /\ Done
    /\ given.lexemes = <<"010">>
    /\ errors = <<>>
    /\ result.Statements[1].Expression.Value = <<8>>
    /\ DecimalValue(Bytes("010")) = <<0, 1>>

LetWritten == given.kind = "statement" /\ given.tree.k = "let"

\* C17: for every input let IDENT = EXPR ; with a well-formed expression
\* EXPR, ParseProgram returns a Program of exactly one statement, a
\* LetStatement whose name is IDENT and whose value is the tree of EXPR,
\* with no diagnostic; let x = 5; gives the name x and the value
\* IntegerLiteral 5.
C17_LetStatement ==
    /\ (Done /\ LetWritten) =>
          /\ OneStatementAsMeant
          /\ result.Statements[1].node = "LetStatement"
          /\ result.Statements[1].Token.Type = LET_
          /\ result.Statements[1].Name.node = "Identifier"
          /\ result.Statements[1].Name.Token = Token(IDENT, Bytes(given.tree.name))
    /\ (Done /\ given.lexemes = <<"let", "x", "=", "5", ";">>) =>
          /\ errors = <<>>
          /\ Len(result.Statements) = 1
          /\ result.Statements[1].node = "LetStatement"
          /\ result.Statements[1].Name.Value = Bytes("x")
          /\ result.Statements[1].Value.node = "IntegerLiteral"
          /\ result.Statements[1].Value.Value = <<5>>

\* let y = a + 5 ; is parsed: the sum is the value of the statement
C17_Witness ==
    /\ Done
    /\ LetWritten
    /\ given.lexemes = <<"let", "y", "=", "a", "+", "5", ";">>
    /\ result.Statements[1].node = "LetStatement"
    /\ result.Statements[1].Name.Value = Bytes("y")
    /\ result.Statements[1].Value.node = "InfixExpression"
    /\ result.Statements[1].Value.Operator = Bytes("+")
    /\ errors = <<>>

IfWritten == given.kind = "statement" /\ given.tree.k = "es" /\ given.tree.x.k = "if"

\* the statements x and y, as the blocks of the example hold them
ExampleBlock(w) == Block(<<[k |-> "es", x |-> [k |-> "atom", w |-> Bytes(w)]]>>)

\* C18: an input if ( COND ) { S1* } else { S2* } parses to exactly one
\* ExpressionStatement wrapping one IfExpression whose condition is the
\* tree of COND, whose consequence block holds the statements S1 in order
\* and whose alternative block holds the statements S2 in order, with no
\* diagnostic; without an else the alternative is absent; a nested block
\* closes at its own brace.
C18_IfExpression ==
    /\ (Done /\ IfWritten) =>
          /\ OneStatementAsMeant
          /\ result.Statements[1].node = "ExpressionStatement"
          /\ result.Statements[1].Expression.node = "IfExpression"
          /\ result.Statements[1].Expression.Consequence.node = "BlockStatement"
          /\ (given.tree.x.else = NoBlock) <=>
                (result.Statements[1].Expression.Alternative = NIL)
    /\ (Done /\ given.lexemes = <<"if", "(", "x", "<", "y", ")", "{", "x", "}",
                                  "else", "{", "y", "}">>) =>
          /\ errors = <<>>
          /\ Len(result.Statements) = 1
          /\ ShapeStatement(result.Statements[1]) =
                [k |-> "es",
                 x |-> [k |-> "if",
                        c |-> [k |-> "bin", op |-> Bytes("<"),
                               x |-> [k |-> "atom", w |-> Bytes("x")],
                               y |-> [k |-> "atom", w |-> Bytes("y")]],
                        then |-> ExampleBlock("x"),
                        else |-> ExampleBlock("y")]]

\* an if with an else is parsed whose consequence ends in a nested if and
\* whose alternative holds two statements
C18_Witness ==
    /\ Done
    /\ IfWritten
    /\ errors = <<>>
    /\ given.lexemes =
          <<"if", "(", "x", "<", "y", ")",
            "{", "a", ";", "if", "(", "a", ")", "{", "return", "b", ";", "}", "}",
            "else", "{", "let", "x", "=", "5", ";", "a", ";", "}">>
    /\ Len(result.Statements) = 1
    /\ Len(result.Statements[1].Expression.Consequence.Statements) = 2
    /\ result.Statements[1].Expression.Consequence.Statements[2].Expression.node =
          "IfExpression"
    /\ Len(result.Statements[1].Expression.Alternative.Statements) = 2

FnWritten == given.kind = "statement" /\ given.tree.k = "es" /\ given.tree.x.k = "fn"

\* C19: an input fn ( P1, ..., Pn ) { BODY } with n >= 0 identifier
\* parameters parses to a FunctionLiteral whose parameter list is exactly
\* P1, ..., Pn in source order (empty for fn ()) and whose body block
\* holds the statements of BODY in order, with no diagnostic;
\* fn (x, y) { x + y; } gives the parameters x, y and a body of one
\* ExpressionStatement over x + y.
C19_FunctionLiteral ==
    /\ (Done /\ FnWritten) =>
          /\ OneStatementAsMeant
          /\ result.Statements[1].Expression.node = "FunctionLiteral"
          /\ result.Statements[1].Expression.Parameters # NIL
          /\ AllFromIdentifiers(result.Statements[1].Expression.Parameters.elems)
          /\ result.Statements[1].Expression.Body.node = "BlockStatement"
    /\ (Done /\ given.lexemes = <<"fn", "(", "x", ",", "y", ")", "{", "x", "+", "y",
                                  ";", "}">>) =>
          /\ errors = <<>>
          /\ Len(result.Statements) = 1
          /\ ShapeStatement(result.Statements[1]) =
                [k |-> "es",
                 x |-> [k |-> "fn",
                        params |-> [k |-> "params", names |-> <<Bytes("x"), Bytes("y")>>],
                        body |-> Block(<<[k |-> "es",
                                          x |-> [k |-> "bin", op |-> Bytes("+"),
                                                 x |-> [k |-> "atom", w |-> Bytes("x")],
                                                 y |-> [k |-> "atom", w |-> Bytes("y")]]]>>)]]

\* fn ( y , x ) { let x = 5 ; a ; } is parsed, the parameters y and then x
C19_Witness ==
    /\ Done
    /\ FnWritten
    /\ errors = <<>>
    /\ given.tree.x.params = <<"y", "x">>
    /\ Len(given.tree.x.body) = 2
    /\ Len(result.Statements) = 1
    /\ result.Statements[1].Expression.Parameters.elems[1].Value = Bytes("y")
    /\ result.Statements[1].Expression.Parameters.elems[2].Value = Bytes("x")
    /\ Len(result.Statements[1].Expression.Body.Statements) = 2

\* fn ( ) { } is parsed: an empty parameter list, not a missing one
C19_NoParameters ==
    /\ Done
    /\ FnWritten
    /\ given.lexemes = <<"fn", "(", ")", "{", "}">>
    /\ result.Statements[1].Expression.Parameters = Slice(<<>>)
    /\ result.Statements[1].Expression.Body.Statements = <<>>

-----------------------------------------------------------------------------
(* Properties of the tree of a clean parse                                 *)

RECURSIVE Complete(_)
RECURSIVE CompleteAll(_)
\* no node of the tree n lacks a child it cannot do without: the operand
\* of a prefix expression, the operands of an infix expression, the
\* condition and the consequence of an if expression, the name of a let
\* statement
Complete(n) ==
    CASE n = NIL -> TRUE
      [] n.node \in {"Program", "BlockStatement"} -> CompleteAll(n.Statements)
      [] n.node = "LetStatement" -> n.Name # NIL /\ Complete(n.Value)
      [] n.node = "ReturnStatement" -> Complete(n.ReturnValue)
      [] n.node = "ExpressionStatement" -> Complete(n.Expression)
      [] n.node = "PrefixExpression" -> n.Right # NIL /\ Complete(n.Right)
      [] n.node = "InfixExpression" ->
            /\ n.Left # NIL
            /\ n.Right # NIL
            /\ Complete(n.Left)
            /\ Complete(n.Right)
      [] n.node = "IfExpression" ->
            /\ n.Condition # NIL
            /\ n.Consequence # NIL
            /\ Complete(n.Condition)
            /\ Complete(n.Consequence)
            /\ Complete(n.Alternative)
      [] n.node = "FunctionLiteral" -> Complete(n.Body)
      [] n.node = "CallExpression" ->
            /\ Complete(n.Function)
            /\ n.Arguments = NIL \/ CompleteAll(n.Arguments.elems)
      [] OTHER -> TRUE

CompleteAll(nodes) == \A i \in 1..Len(nodes) : Complete(nodes[i])

RECURSIVE HasString(_)
RECURSIVE AllHaveString(_)
\* every node of the tree n is of a type whose String method is in ast.go
HasString(n) ==
    CASE n = NIL -> TRUE
      [] n.node \in {"Program", "BlockStatement"} -> AllHaveString(n.Statements)
      [] n.node = "LetStatement" -> HasString(n.Value)
      [] n.node = "ReturnStatement" -> HasString(n.ReturnValue)
      [] n.node = "ExpressionStatement" -> HasString(n.Expression)
      [] n.node = "PrefixExpression" -> HasString(n.Right)
      [] n.node = "InfixExpression" -> HasString(n.Left) /\ HasString(n.Right)
      [] n.node = "IfExpression" ->
            /\ HasString(n.Condition)
            /\ HasString(n.Consequence)
            /\ HasString(n.Alternative)
      [] n.node \in {"FunctionLiteral", "CallExpression"} -> FALSE
      [] OTHER -> TRUE

AllHaveString(nodes) == \A i \in 1..Len(nodes) : HasString(nodes[i])

CleanParse == Done /\ errors = <<>>

\* C22: whenever ParseProgram returns with an empty diagnostic list the tree
\* is complete: no PrefixExpression lacks its operand, no InfixExpression
\* lacks its left or right operand, no IfExpression lacks its condition or
\* consequence, no LetStatement lacks its name; so the rendering that the
\* read loop performs only on a clean parse never calls String through a
\* missing child.
C22_CleanParseIsComplete ==
    CleanParse =>
        /\ result # NoProgram
        /\ Complete(result)
        /\ HasString(result) => String(result) # Panic

\* a clean parse of an if expression with an else, rendered by the read loop
C22_Witness ==
    /\ CleanParse
    /\ given.lexemes = <<"if", "(", "x", "<", "y", ")", "{", "x", "}", "else", "{", "y",
                         "}">>
    /\ result.Statements[1].Expression.node = "IfExpression"
    /\ result.Statements[1].Expression.Condition.node = "InfixExpression"
    /\ Complete(result)
    /\ String(result) # Panic

\* a parse with a diagnostic whose tree lacks an operand and cannot be
\* rendered
C22_IncompleteWithDiagnostic ==
    /\ Done
    /\ errors # <<>>
    /\ ~Complete(result)
    /\ HasString(result)
    /\ String(result) = Panic

-----------------------------------------------------------------------------
(* Properties of the lexer, over the history toks of the calls made so far *)

\* the bytes of the lexemes the lexer knows, and white space
RecognizedBytes ==
    {b \in 1..127 : isLetter(b) \/ isDigit(b)}
    \cup {32, 9, 10, 13} \cup DOMAIN SingleByteKinds \cup {Ord("="), Ord("!")}

Recognized(input) == \A i \in 1..Len(input) : input[i] \in RecognizedBytes

IsEOF(call) == call.tok.Type = EOF

\* the call left the cursor beyond the last byte of the buffer
PastBuffer(call) == call.after > Len(l.input)

\* C4: on an input of n bytes, all of recognized lexemes and white space,
\* every NextToken call returns; a call that returns the end-of-input token
\* has consumed the whole buffer; among the first n+1 calls one returns the
\* end-of-input token; and a call that returns another token moves the cursor
\* forward by at least one byte.
C4_LexerReachesEOF ==
    Recognized(l.input) =>
        /\ \A i \in 1..Len(toks) :
              IF IsEOF(toks[i]) THEN PastBuffer(toks[i])
              ELSE toks[i].after >= toks[i].before + 1
        /\ Len(toks) >= Len(l.input) + 1 =>
              \E i \in 1..(Len(l.input) + 1) : IsEOF(toks[i])

\* a recognized input of full length, lexed to its end-of-input token after
\* other tokens
C4_Witness ==
    /\ Recognized(l.input)
    /\ Len(l.input) = MaxLen
    /\ Len(toks) >= 2
    /\ ~IsEOF(toks[1])
    /\ IsEOF(toks[Len(toks)])
    /\ \A i \in 1..(Len(toks) - 1) : ~IsEOF(toks[i])

\* C5: for every input byte string, the end-of-input token is returned only
\* by a call that has consumed the whole buffer, and once a call has returned
\* it every later call returns it again.
C5_EOFStable ==
    /\ \A i \in 1..Len(toks) : IsEOF(toks[i]) => PastBuffer(toks[i])
    /\ \A i \in 1..Len(toks) : \A j \in i..Len(toks) :
          IsEOF(toks[i]) => IsEOF(toks[j])

\* an end-of-input token followed by a token of another kind
C5_TokenAfterEOF ==
    \E i \in 1..(Len(toks) - 1) : IsEOF(toks[i]) /\ ~IsEOF(toks[i + 1])

=============================================================================
